---- MODULE Spec2Model ----
(***************************************************************************)
(* A model of dummy-central-system: the OCPP message codec (src/ocpp.rs),  *)
(* the Central System dispatcher (src/cs.rs), the Certification Authority  *)
(* (src/x509.rs) and the per-connection session loop (src/main.rs).        *)
(*                                                                         *)
(* Strings are sequences of one-character strings, so that the case-       *)
(* insensitive command match, the emptiness test of the id and the hex     *)
(* encoding of certificate bytes are computed as the code computes them.   *)
(* Option<T> is a sequence of length 0 (None) or 1 (Some(v)).              *)
(* Result<T, E> is a record tagged "Ok" or "Err"; a panic (a failed        *)
(* unwrap) is the third outcome, tagged "Panic".                           *)
(***************************************************************************)
EXTENDS Integers, Sequences, FiniteSets, TLC

(***************************************************************************)
(* Option and Result                                                       *)
(***************************************************************************)
None == <<>>

Some(v) == <<v>>

IsSome(o) == Len(o) = 1

IsNone(o) == Len(o) = 0

Unwrap(o) == o[1]

Ok(v) == [tag |-> "Ok", val |-> v]

Err(e) == [tag |-> "Err", err |-> e]

Panic == [tag |-> "Panic"]

(***************************************************************************)
(* Strings                                                                 *)
(***************************************************************************)
UpperCase ==
  <<"A","B","C","D","E","F","G","H","I","J","K","L","M",
    "N","O","P","Q","R","S","T","U","V","W","X","Y","Z">>

LowerCase ==
  <<"a","b","c","d","e","f","g","h","i","j","k","l","m",
    "n","o","p","q","r","s","t","u","v","w","x","y","z">>

\* u8::to_ascii_lowercase, as used by str::eq_ignore_ascii_case
to_ascii_lowercase(ch) ==
  IF \E i \in DOMAIN UpperCase : UpperCase[i] = ch
  THEN LowerCase[CHOOSE i \in DOMAIN UpperCase : UpperCase[i] = ch]
  ELSE ch

eq_ignore_ascii_case(a, b) ==
  /\ Len(a) = Len(b)
  /\ \A i \in 1..Len(a) : to_ascii_lowercase(a[i]) = to_ascii_lowercase(b[i])

(***************************************************************************)
(* json::JsonValue.  An object is the ordered list of its entries.         *)
(***************************************************************************)
JNull == [t |-> "null"]

JNum(n) == [t |-> "num", n |-> n]

JStr(s) == [t |-> "str", s |-> s]

JArr(a) == [t |-> "arr", a |-> a]

JObj(o) == [t |-> "obj", o |-> o]

Entry(k, v) == [k |-> k, v |-> v]

\* JsonValue::len: the number of elements of an array or of entries of an
\* object, 0 for anything else
JLen(j) ==
  IF j.t = "arr" THEN Len(j.a)
  ELSE IF j.t = "obj" THEN Len(j.o)
  ELSE 0

\* Index<usize> for JsonValue (0-based): Null when out of range or no array
JIndex(j, i) ==
  IF j.t = "arr" /\ i < Len(j.a) THEN j.a[i + 1] ELSE JNull

\* Index<&str> for JsonValue: Null when the key is absent or j is no object
JField(j, key) ==
  IF j.t = "obj" /\ \E i \in 1..Len(j.o) : j.o[i].k = key
  THEN j.o[CHOOSE i \in 1..Len(j.o) :
              /\ j.o[i].k = key
              /\ \A h \in 1..(i - 1) : j.o[h].k # key].v
  ELSE JNull

\* JsonValue::as_str
as_str(j) == IF j.t = "str" THEN Some(j.s) ELSE None

\* JsonValue::as_u8
as_u8(j) == IF j.t = "num" /\ j.n >= 0 /\ j.n <= 255 THEN Some(j.n) ELSE None

(***************************************************************************)
(* src/ocpp.rs: the message model                                          *)
(***************************************************************************)
MessageType == {"Call", "CallResult", "CallError"}

Command ==
  {"BootNotification", "StatusNotification", "Heartbeat", "SignCertificate",
   "CertificateSigned", "StartTransaction", "MeterValues", "StopTransaction",
   "Authorize"}

\* TryFrom<u8> for MessageType
MessageType_try_from(value) ==
  IF value = 2 THEN Ok("Call")
  ELSE IF value = 3 THEN Ok("CallResult")
  ELSE IF value = 4 THEN Ok("CallError")
  ELSE Err("()")

BootNotificationStr ==
  <<"B","o","o","t","N","o","t","i","f","i","c","a","t","i","o","n">>

StatusNotificationStr ==
  <<"S","t","a","t","u","s","N","o","t","i","f","i","c","a","t","i","o","n">>

HeartbeatStr == <<"H","e","a","r","t","b","e","a","t">>

SignCertificateStr ==
  <<"S","i","g","n","C","e","r","t","i","f","i","c","a","t","e">>

CertificateSignedStr ==
  <<"C","e","r","t","i","f","i","c","a","t","e","S","i","g","n","e","d">>

StartTransactionStr ==
  <<"S","t","a","r","t","T","r","a","n","s","a","c","t","i","o","n">>

MeterValuesStr == <<"M","e","t","e","r","V","a","l","u","e","s">>

StopTransactionStr ==
  <<"S","t","o","p","T","r","a","n","s","a","c","t","i","o","n">>

AuthorizeStr == <<"A","u","t","h","o","r","i","z","e">>

\* ToString for Command
Command_to_string(cmd) ==
  CASE cmd = "BootNotification" -> BootNotificationStr
    [] cmd = "StatusNotification" -> StatusNotificationStr
    [] cmd = "Heartbeat" -> HeartbeatStr
    [] cmd = "SignCertificate" -> SignCertificateStr
    [] cmd = "CertificateSigned" -> CertificateSignedStr
    [] cmd = "StartTransaction" -> StartTransactionStr
    [] cmd = "MeterValues" -> MeterValuesStr
    [] cmd = "StopTransaction" -> StopTransactionStr
    [] cmd = "Authorize" -> AuthorizeStr

\* TryFrom<&str> for Command
Command_try_from(value) ==
  IF eq_ignore_ascii_case(value, BootNotificationStr) THEN Ok("BootNotification")
  ELSE IF eq_ignore_ascii_case(value, StatusNotificationStr) THEN Ok("StatusNotification")
  ELSE IF eq_ignore_ascii_case(value, HeartbeatStr) THEN Ok("Heartbeat")
  ELSE IF eq_ignore_ascii_case(value, SignCertificateStr) THEN Ok("SignCertificate")
  ELSE IF eq_ignore_ascii_case(value, CertificateSignedStr) THEN Ok("CertificateSigned")
  ELSE IF eq_ignore_ascii_case(value, StartTransactionStr) THEN Ok("StartTransaction")
  ELSE IF eq_ignore_ascii_case(value, MeterValuesStr) THEN Ok("MeterValues")
  ELSE IF eq_ignore_ascii_case(value, StopTransactionStr) THEN Ok("StopTransaction")
  ELSE IF eq_ignore_ascii_case(value, AuthorizeStr) THEN Ok("Authorize")
  ELSE Err("()")

AcceptedStr == <<"A","c","c","e","p","t","e","d">>

RejectedStr == <<"R","e","j","e","c","t","e","d">>

\* From<Status> for json::JsonValue
Status_into_json(status) ==
  IF status = "Accepted" THEN JStr(AcceptedStr) ELSE JStr(RejectedStr)

\* Message::new
Message_new(role, id, command, payload) ==
  [role |-> role, id |-> id, command |-> command, payload |-> payload]

\* Result::ok: Some(v) of an Ok, None of an Err
ResultOk(r) == IF r.tag = "Ok" THEN Some(r.val) ELSE None

(***************************************************************************)
(* src/ocpp.rs: the codec.  A text frame is given by what json::parse      *)
(* makes of it: a JsonValue, or no value when the text is not JSON.        *)
(***************************************************************************)
TYPE_INDEX == 0

ID_INDEX == 1

COMMAND_INDEX == 2

PAYLOAD_INDEX == 3

\* unpack_message; `parsed` is json::parse(raw) as an Option
unpack_message(parsed) ==
  IF IsNone(parsed) THEN Err("can't parse")
  ELSE
    LET data == Unwrap(parsed) IN
    IF JLen(data) <= ID_INDEX THEN Err("invalid len")
    ELSE
      LET type_opt == as_u8(JIndex(data, TYPE_INDEX))
          id_opt == as_str(JIndex(data, ID_INDEX))
      IN
      IF IsNone(type_opt) THEN Panic
      ELSE IF IsNone(id_opt) THEN Panic
      ELSE IF Len(Unwrap(id_opt)) = 0 THEN Err("id is empty")
      ELSE
        LET msg_type == MessageType_try_from(Unwrap(type_opt)) IN
        IF msg_type.tag # "Ok" THEN Panic
        ELSE
          LET msg_command ==
                IF JLen(data) > COMMAND_INDEX
                THEN LET unpacked == as_str(JIndex(data, COMMAND_INDEX)) IN
                     IF IsSome(unpacked)
                     THEN ResultOk(Command_try_from(Unwrap(unpacked)))
                     ELSE None
                ELSE None
              msg_payload ==
                IF JLen(data) > PAYLOAD_INDEX
                THEN Some(JIndex(data, PAYLOAD_INDEX))
                ELSE None
          IN Ok(Message_new(msg_type.val, Unwrap(id_opt), msg_command, msg_payload))

\* the type code pack_message writes for a role
RoleCode(role) ==
  IF role = "Call" THEN 2
  ELSE IF role = "CallResult" THEN 3
  ELSE 4

\* mutant: the payload is pushed before the command
pack_message_PayloadFirst(message) ==
  LET data0 == <<JNum(RoleCode(message.role)), JStr(message.id)>>
      data1 == IF IsSome(message.payload)
               THEN Append(data0, Unwrap(message.payload))
               ELSE data0
      data2 == IF IsSome(message.command)
               THEN Append(data1, JStr(Command_to_string(Unwrap(message.command))))
               ELSE data1
  IN Ok(JArr(data2))

\* pack_message, up to json::stringify: the array that is written
pack_message(message) ==
  LET data0 == <<JNum(RoleCode(message.role)), JStr(message.id)>>
      data1 == IF IsSome(message.command)
               THEN Append(data0, JStr(Command_to_string(Unwrap(message.command))))
               ELSE data0
      data2 == IF IsSome(message.payload)
               THEN Append(data1, Unwrap(message.payload))
               ELSE data1
  IN Ok(JArr(data2))

(***************************************************************************)
(* Bytes, hex and time                                                     *)
(***************************************************************************)
Digits == <<"0","1","2","3","4","5","6","7","8","9">>

\* the code of an ASCII character of PEM text: letters, digits, space and
\* the punctuation of base64 and of the BEGIN/END lines
AsciiCode(ch) ==
  IF \E i \in DOMAIN UpperCase : UpperCase[i] = ch
  THEN 64 + (CHOOSE i \in DOMAIN UpperCase : UpperCase[i] = ch)
  ELSE IF \E i \in DOMAIN LowerCase : LowerCase[i] = ch
  THEN 96 + (CHOOSE i \in DOMAIN LowerCase : LowerCase[i] = ch)
  ELSE IF \E i \in DOMAIN Digits : Digits[i] = ch
  THEN 47 + (CHOOSE i \in DOMAIN Digits : Digits[i] = ch)
  ELSE IF ch = "+" THEN 43
  ELSE IF ch = "-" THEN 45
  ELSE IF ch = "/" THEN 47
  ELSE IF ch = "=" THEN 61
  ELSE 32

\* str::as_bytes, on ASCII text: the code of each character
as_bytes(str) == [i \in 1..Len(str) |-> AsciiCode(str[i])]

HexDigits == <<"0","1","2","3","4","5","6","7","8","9","a","b","c","d","e","f">>

\* hex::encode: two lower-case hex digits per byte
RECURSIVE hex_encode(_)
hex_encode(bytes) ==
  IF Len(bytes) = 0 THEN <<>>
  ELSE <<HexDigits[(bytes[1] \div 16) + 1], HexDigits[(bytes[1] % 16) + 1]>>
         \o hex_encode(Tail(bytes))

\* n in decimal, left-padded with zeros to `width` digits
RECURSIVE Decimal(_, _)
Decimal(n, width) ==
  IF width = 0 THEN <<>>
  ELSE Decimal(n \div 10, width - 1) \o <<Digits[(n % 10) + 1]>>

\* A clock reading (Utc::now) is [wraps, secs, millis]: the i64 count of
\* whole seconds since the epoch is wraps * 2^32 + secs, with 0 <= secs < 2^32,
\* followed by millis milliseconds.  The two limbs keep the 64-bit value
\* exact where a single integer of the model checker would overflow.
Clock(wraps, secs, millis) == [wraps |-> wraps, secs |-> secs, millis |-> millis]

\* (x as u32) of the seconds of a clock reading: the low 32 bits
as_u32(now) == now.secs

\* DateTime<Utc>::to_rfc3339 of a clock reading:
\* YYYY-MM-DDTHH:MM:SS[.mmm]+00:00 (proleptic Gregorian calendar);
\* 2^32 seconds are 49710 days and 23296 seconds
to_rfc3339(now) ==
  LET rest == now.wraps * 23296 + (now.secs % 86400)
      days == now.wraps * 49710 + (now.secs \div 86400) + (rest \div 86400)
      sod == rest % 86400
      frac == now.millis
      z == days + 719468
      era == z \div 146097
      doe == z - era * 146097
      yoe == (doe - doe \div 1460 + doe \div 36524 - doe \div 146096) \div 365
      doy == doe - (365 * yoe + yoe \div 4 - yoe \div 100)
      mp == (5 * doy + 2) \div 153
      d == doy - (153 * mp + 2) \div 5 + 1
      m == IF mp < 10 THEN mp + 3 ELSE mp - 9
      y == yoe + era * 400 + (IF m <= 2 THEN 1 ELSE 0)
  IN Decimal(y, 4) \o <<"-">> \o Decimal(m, 2) \o <<"-">> \o Decimal(d, 2)
       \o <<"T">> \o Decimal(sod \div 3600, 2) \o <<":">>
       \o Decimal((sod % 3600) \div 60, 2) \o <<":">> \o Decimal(sod % 60, 2)
       \o (IF frac = 0 THEN <<>> ELSE <<".">> \o Decimal(frac, 3))
       \o <<"+","0","0",":","0","0">>

\* Uuid::new_v4().to_string() of the random bits `n`: hyphenated lower-case
\* hex with the version nibble 4 and the variant bits 10
Uuid_to_string(n) ==
  <<"0","0","0","0","0","0","0","0","-","0","0","0","0","-","4","0","0","0",
    "-","8","0","0","0","-","0","0","0","0","0","0","0","0","0","0">>
    \o <<HexDigits[((n \div 16) % 16) + 1], HexDigits[(n % 16) + 1]>>

(***************************************************************************)
(* json::stringify and json::parse, between JsonValue and the text of a    *)
(* frame.  The text is a sequence of characters.  stringify writes the     *)
(* compact form: no white space, object entries in insertion order,        *)
(* integers in decimal, strings in double quotes with the quote and the    *)
(* backslash escaped.  parse reads the same grammar with white space       *)
(* allowed between tokens, and anything else is no JSON.                   *)
(***************************************************************************)
Quote == "\""

Backslash == "\\"

\* the characters of the object keys of the protocol
KeyText ==
  [status |-> <<"s","t","a","t","u","s">>,
   currentTime |-> <<"c","u","r","r","e","n","t","T","i","m","e">>,
   interval |-> <<"i","n","t","e","r","v","a","l">>,
   transactionId |-> <<"t","r","a","n","s","a","c","t","i","o","n","I","d">>,
   idTagInfo |-> <<"i","d","T","a","g","I","n","f","o">>,
   expiryDate |-> <<"e","x","p","i","r","y","D","a","t","e">>,
   evseId |-> <<"e","v","s","e","I","d">>,
   idTokenInfo |-> <<"i","d","T","o","k","e","n","I","n","f","o">>,
   cacheExpiryDateTime |-> <<"c","a","c","h","e","E","x","p","i","r","y","D","a","t","e","T","i","m","e">>,
   cert |-> <<"c","e","r","t">>,
   typeOfCertificate |-> <<"t","y","p","e","O","f","C","e","r","t","i","f","i","c","a","t","e">>,
   csr |-> <<"c","s","r">>]

\* the key whose characters are `text`; every other text is one unknown key
KeyOf(text) ==
  IF \E k \in DOMAIN KeyText : KeyText[k] = text
  THEN CHOOSE k \in DOMAIN KeyText : KeyText[k] = text
  ELSE "?"

\* a natural number in decimal, without leading zeros
RECURSIVE DecimalText(_)
DecimalText(n) ==
  IF n < 10 THEN <<Digits[n + 1]>>
  ELSE DecimalText(n \div 10) \o <<Digits[(n % 10) + 1]>>

NumberText(n) == IF n < 0 THEN <<"-">> \o DecimalText(0 - n) ELSE DecimalText(n)

RECURSIVE EscapeText(_)
EscapeText(s) ==
  IF Len(s) = 0 THEN <<>>
  ELSE (IF Head(s) \in {Quote, Backslash} THEN <<Backslash, Head(s)>> ELSE <<Head(s)>>)
         \o EscapeText(Tail(s))

StringText(s) == <<Quote>> \o EscapeText(s) \o <<Quote>>

RECURSIVE json_stringify(_)
RECURSIVE ElementsText(_)
RECURSIVE EntriesText(_)
\* json::stringify
json_stringify(j) ==
  CASE j.t = "null" -> <<"n","u","l","l">>
    [] j.t = "num" -> NumberText(j.n)
    [] j.t = "str" -> StringText(j.s)
    [] j.t = "arr" -> <<"[">> \o ElementsText(j.a) \o <<"]">>
    [] j.t = "obj" -> <<"{">> \o EntriesText(j.o) \o <<"}">>

\* the elements of an array, separated by commas
ElementsText(a) ==
  IF Len(a) = 0 THEN <<>>
  ELSE json_stringify(Head(a)) \o (IF Len(a) > 1 THEN <<",">> ELSE <<>>)
         \o ElementsText(Tail(a))

\* the entries of an object, "key":value, separated by commas
EntriesText(o) ==
  IF Len(o) = 0 THEN <<>>
  ELSE StringText(KeyText[Head(o).k]) \o <<":">> \o json_stringify(Head(o).v)
         \o (IF Len(o) > 1 THEN <<",">> ELSE <<>>) \o EntriesText(Tail(o))

\* a step of the parser: a value and the position after it, or a failure
ParsedAt(val, pos) == [ok |-> TRUE, val |-> val, pos |-> pos]

ParseFail == [ok |-> FALSE]

\* the character at position p, or the empty string past the end
CharAt(text, p) == IF p <= Len(text) THEN text[p] ELSE ""

IsDigit(ch) == \E i \in DOMAIN Digits : Digits[i] = ch

DigitValue(ch) == (CHOOSE i \in DOMAIN Digits : Digits[i] = ch) - 1

RECURSIVE SkipSpace(_, _)
SkipSpace(text, p) == IF CharAt(text, p) = " " THEN SkipSpace(text, p + 1) ELSE p

RECURSIVE ParseDigits(_, _, _)
ParseDigits(text, p, acc) ==
  IF IsDigit(CharAt(text, p))
  THEN ParseDigits(text, p + 1, acc * 10 + DigitValue(text[p]))
  ELSE ParsedAt(acc, p)

\* an integer: an optional minus sign and at least one digit
ParseNumber(text, p) ==
  LET neg == CharAt(text, p) = "-"
      q == IF neg THEN p + 1 ELSE p
  IN IF ~IsDigit(CharAt(text, q)) THEN ParseFail
     ELSE LET d == ParseDigits(text, q, 0) IN
          ParsedAt(JNum(IF neg THEN 0 - d.val ELSE d.val), d.pos)

\* the characters of a string up to its closing quote; p is past the opening
RECURSIVE ParseChars(_, _, _)
ParseChars(text, p, acc) ==
  IF p > Len(text) THEN ParseFail
  ELSE IF text[p] = Quote THEN ParsedAt(acc, p + 1)
  ELSE IF text[p] = Backslash
  THEN IF CharAt(text, p + 1) \in {Quote, Backslash, "/"}
       THEN ParseChars(text, p + 2, Append(acc, text[p + 1]))
       ELSE ParseFail
  ELSE ParseChars(text, p + 1, Append(acc, text[p]))

\* Object::insert: the value of an existing key is replaced in place
ObjectInsert(o, k, v) ==
  IF \E i \in 1..Len(o) : o[i].k = k
  THEN [i \in 1..Len(o) |-> IF o[i].k = k THEN Entry(k, v) ELSE o[i]]
  ELSE Append(o, Entry(k, v))

RECURSIVE ParseValue(_, _)
RECURSIVE ParseElements(_, _, _)
RECURSIVE ParseEntries(_, _, _)
\* one JSON value, after white space
ParseValue(text, p0) ==
  LET p == SkipSpace(text, p0)
      ch == CharAt(text, p)
  IN
  IF ch = "["
  THEN LET q == SkipSpace(text, p + 1) IN
       IF CharAt(text, q) = "]" THEN ParsedAt(JArr(<<>>), q + 1)
       ELSE ParseElements(text, q, <<>>)
  ELSE IF ch = "{"
  THEN LET q == SkipSpace(text, p + 1) IN
       IF CharAt(text, q) = "}" THEN ParsedAt(JObj(<<>>), q + 1)
       ELSE ParseEntries(text, q, <<>>)
  ELSE IF ch = Quote
  THEN LET str == ParseChars(text, p + 1, <<>>) IN
       IF str.ok THEN ParsedAt(JStr(str.val), str.pos) ELSE ParseFail
  ELSE IF ch = "n"
  THEN IF p + 3 <= Len(text) /\ SubSeq(text, p, p + 3) = <<"n","u","l","l">>
       THEN ParsedAt(JNull, p + 4)
       ELSE ParseFail
  ELSE ParseNumber(text, p)

\* the elements of an array after `acc`, up to the closing bracket
ParseElements(text, p, acc) ==
  LET elem == ParseValue(text, p) IN
  IF ~elem.ok THEN ParseFail
  ELSE LET q == SkipSpace(text, elem.pos) IN
       IF CharAt(text, q) = "," THEN ParseElements(text, q + 1, Append(acc, elem.val))
       ELSE IF CharAt(text, q) = "]" THEN ParsedAt(JArr(Append(acc, elem.val)), q + 1)
       ELSE ParseFail

\* the entries of an object after `acc`, up to the closing brace
ParseEntries(text, p0, acc) ==
  LET p == SkipSpace(text, p0) IN
  IF CharAt(text, p) # Quote THEN ParseFail
  ELSE
    LET key == ParseChars(text, p + 1, <<>>) IN
    IF ~key.ok THEN ParseFail
    ELSE
      LET colon == SkipSpace(text, key.pos) IN
      IF CharAt(text, colon) # ":" THEN ParseFail
      ELSE
        LET val == ParseValue(text, colon + 1) IN
        IF ~val.ok THEN ParseFail
        ELSE
          LET q == SkipSpace(text, val.pos)
              entries == ObjectInsert(acc, KeyOf(key.val), val.val)
          IN
          IF CharAt(text, q) = "," THEN ParseEntries(text, q + 1, entries)
          ELSE IF CharAt(text, q) = "}" THEN ParsedAt(JObj(entries), q + 1)
          ELSE ParseFail

\* json::parse as an Option: one value and nothing but white space after it
json_parse(text) ==
  LET top == ParseValue(text, 1) IN
  IF top.ok /\ SkipSpace(text, top.pos) = Len(text) + 1 THEN Some(top.val) ELSE None

(***************************************************************************)
(* src/x509.rs: the Certification Authority.  What the file system and the *)
(* openssl subprocess do is the environment's choice, `env.fault`:         *)
(*   "none"    every step succeeds                                         *)
(*   "create"  File::create of the request file fails                      *)
(*   "spawn"   the subprocess (openssl, sync) cannot be spawned            *)
(*   "wait"    waiting for the subprocess fails                            *)
(*   "exit"    openssl runs and exits with a failure status, writing no    *)
(*             file; Child::wait is Ok(status) all the same                *)
(*   "open"    the output file cannot be opened (openssl wrote none)       *)
(*   "read"    reading the output file fails                               *)
(* and `env.data`, the bytes openssl wrote.                                *)
(***************************************************************************)
WorkDir == <<"/","t","m","p","/","d","u","m","m","y","-","c","e","n","t","r","a","l","-","s","y","s","t","e","m","/","c","a","/">>

RootKeyName == <<"r","o","o","t","-","k","e","y",".","p","e","m">>

RootCertName == <<"r","o","o","t","-","c","e","r","t",".","p","e","m">>

\* DefaultCertificationAuthority::new
DefaultCertificationAuthority_new(settings) ==
  [settings |-> settings, certificates |-> <<>>]

\* generate_key, generate_certificate and sign_certificate_request end alike:
\* spawn().unwrap().wait(), then sync(), then res.is_ok()
run_openssl(env) ==
  IF env.fault = "spawn" THEN Panic
  ELSE Ok(env.fault # "wait")

\* whether an openssl run of init wrote the file it was asked for
Generated(env) == env.fault = "none"

\* DefaultCertificationAuthority::init: the result and the CA afterwards
CA_init(ca, env) ==
  IF ~ca.settings.new THEN [res |-> Ok("()"), ca |-> ca]
  ELSE
    LET pair == [key |-> ca.settings.directory \o RootKeyName,
                 certificate |-> ca.settings.directory \o RootCertName]
        key == run_openssl(env.key)
        cert == run_openssl(env.cert)
    IN
    IF key.tag = "Panic" THEN [res |-> Panic, ca |-> ca]
    ELSE IF ~key.val THEN [res |-> Err("can't generate key"), ca |-> ca]
    ELSE IF cert.tag = "Panic" THEN [res |-> Panic, ca |-> ca]
    ELSE IF ~cert.val THEN [res |-> Err("can't generate certificate"), ca |-> ca]
    ELSE [res |-> Ok("()"),
          ca |-> [ca EXCEPT !.certificates = Append(@, pair)]]

\* CertificationAuthority::sign for DefaultCertificationAuthority
CA_sign(ca, csr, env) ==
  IF csr.format # "PEM" THEN Err("unsupported format")
  ELSE IF env.fault = "create" THEN Panic
  ELSE IF Len(ca.certificates) = 0 THEN Panic
  ELSE
    LET signed == run_openssl(env) IN
    IF signed.tag = "Panic" THEN Panic
    ELSE IF signed.val
    THEN IF env.fault = "open" THEN Panic
         ELSE IF env.fault # "read"
         THEN Ok(<<[format |-> "PEM", data |-> env.data]>>)
         ELSE Err("failed to read certificate")
    ELSE Err("failed to sign")

(***************************************************************************)
(* src/cs.rs: the Central System.  make_response reads the clock, draws a  *)
(* random UUID and calls the CA; these are its inputs `now`, `uuid`, `env`.*)
(***************************************************************************)
ExpiryStr == <<"2","0","3","0","-","1","2","-","3","1","T","1","1",":","5","9",":","5","9",".","0","0","0","0","0","0","Z">>

Interval == 60

\* CentralSystem::build: Ok(cs), Err or a panic, by what CA init does
CentralSystem_build(env) ==
  LET settings == [directory |-> WorkDir, new |-> TRUE]
      made == CA_init(DefaultCertificationAuthority_new(settings), env)
  IN
  IF made.res.tag = "Panic" THEN Panic
  ELSE IF made.res.tag = "Ok" THEN Ok([ca |-> made.ca])
  ELSE Err("failed to init Certification Authority")

make_timestamp(now) == to_rfc3339(now)

make_boot_notification_response(request, now) ==
  LET payload == JObj(<<Entry("status", Status_into_json("Accepted")),
                        Entry("currentTime", JStr(make_timestamp(now))),
                        Entry("interval", JNum(Interval))>>)
  IN Ok(<<Message_new("CallResult", request.id, None, Some(payload))>>)

make_status_notification_response(request) ==
  Ok(<<Message_new("CallResult", request.id, None, Some(JObj(<<>>)))>>)

\* mutant: the clock in milliseconds, not divided by 1000 (its low digits)
make_start_transaction_response_Millis(request, now) ==
  LET ts == (as_u32(now) % 1000000) * 1000 + now.millis
      tag_info == JObj(<<Entry("status", Status_into_json("Accepted")),
                         Entry("expiryDate", JStr(ExpiryStr))>>)
      status == JObj(<<Entry("transactionId", JNum(ts)),
                       Entry("idTagInfo", tag_info)>>)
  IN Ok(<<Message_new("CallResult", request.id, None, Some(status))>>)

make_start_transaction_response(request, now) ==
  LET ts == as_u32(now)
      tag_info == JObj(<<Entry("status", Status_into_json("Accepted")),
                         Entry("expiryDate", JStr(ExpiryStr))>>)
      status == JObj(<<Entry("transactionId", JNum(ts)),
                       Entry("idTagInfo", tag_info)>>)
  IN Ok(<<Message_new("CallResult", request.id, None, Some(status))>>)

make_stop_transaction_response(request) ==
  LET tag_info == JObj(<<Entry("status", Status_into_json("Accepted")),
                         Entry("expiryDate", JStr(ExpiryStr))>>)
  IN Ok(<<Message_new("CallResult", request.id, None, Some(tag_info))>>)

make_authorize_response(request) ==
  IF IsNone(request.payload) THEN Panic
  ELSE
    LET req_payload == Unwrap(request.payload)
        evses == JField(req_payload, "evseId")
        token_info == JObj(<<Entry("status", Status_into_json("Accepted")),
                             Entry("cacheExpiryDateTime", JStr(ExpiryStr))>>)
        data == JObj(<<Entry("evseId", evses), Entry("idTokenInfo", token_info)>>)
    IN Ok(<<Message_new("CallResult", request.id, None, Some(data))>>)

make_meter_values_response(request) ==
  Ok(<<Message_new("CallResult", request.id, None, Some(JObj(<<>>)))>>)

make_heartbeat_response(request, now) ==
  LET payload == JObj(<<Entry("currentTime", JStr(make_timestamp(now)))>>)
  IN Ok(<<Message_new("CallResult", request.id, None, Some(payload))>>)

\* the acknowledgment of a SignCertificate request
SignAck(request) ==
  Message_new("CallResult", request.id, None,
              Some(JObj(<<Entry("status", Status_into_json("Accepted"))>>)))

\* mutant: the new call carries the command of the request it answers
SignedCall_RequestCommand(cert, cert_type, uuid) ==
  Message_new("Call", Uuid_to_string(uuid), Some("SignCertificate"),
              Some(JObj(<<Entry("cert", JArr(<<JStr(hex_encode(cert[1].data))>>)),
                          Entry("typeOfCertificate", JStr(cert_type))>>)))

\* the CertificateSigned call for the certificates the CA returned
SignedCall(cert, cert_type, uuid) ==
  Message_new("Call", Uuid_to_string(uuid), Some("CertificateSigned"),
              Some(JObj(<<Entry("cert", JArr(<<JStr(hex_encode(cert[1].data))>>)),
                          Entry("typeOfCertificate", JStr(cert_type))>>)))

\* mutant: the new call is pushed before the acknowledgment
SignResult_CallFirst(ack, response) == <<response, ack>>

\* the messages make_sign_certificate_response returns when the CA has signed
SignResult(ack, response) == <<ack, response>>

\* mutant: the acknowledgment built before the CA call is returned alone
SignFailed_AckAlone(ack) == Ok(<<ack>>)

\* what make_sign_certificate_response returns when the CA's sign failed:
\* the acknowledgment built before is dropped
SignFailed(ack) == Err("")

\* the CertificateSignRequest made of the payload's csr text
SignRequest(csr_payload) == [data |-> as_bytes(csr_payload), format |-> "PEM"]

make_sign_certificate_response(cs, request, uuid, env) ==
  IF IsNone(request.payload) THEN Err("payload is empty")
  ELSE
    LET ack == SignAck(request)
        req_payload == Unwrap(request.payload)
        cert_type == as_str(JField(req_payload, "typeOfCertificate"))
        csr_payload == as_str(JField(req_payload, "csr"))
    IN
    IF IsNone(cert_type) THEN Panic
    ELSE IF IsNone(csr_payload) THEN Panic
    ELSE
      LET csr == SignRequest(Unwrap(csr_payload))
          signed == CA_sign(cs.ca, csr, env)
      IN
      IF signed.tag = "Panic" THEN Panic
      ELSE IF signed.tag = "Ok"
      THEN IF Len(signed.val) = 0 THEN Panic
           ELSE Ok(SignResult(ack, SignedCall(signed.val, Unwrap(cert_type), uuid)))
      ELSE SignFailed(ack)

\* mutant: a command without a handler of its own is not answered
make_default_answer_NoResponse(request) == Err("no response")

make_default_answer(request) ==
  Ok(<<Message_new("CallResult", request.id, None, Some(JObj(<<>>)))>>)

\* make_response's match on (role, command), for a request with a command
route(cs, request, now, uuid, env) ==
    LET command == Unwrap(request.command) IN
    IF request.role = "Call"
    THEN CASE command = "BootNotification" -> make_boot_notification_response(request, now)
           [] command = "StatusNotification" -> make_status_notification_response(request)
           [] command = "Heartbeat" -> make_heartbeat_response(request, now)
           [] command = "SignCertificate" ->
                make_sign_certificate_response(cs, request, uuid, env)
           [] command = "StartTransaction" -> make_start_transaction_response(request, now)
           [] command = "MeterValues" -> make_meter_values_response(request)
           [] command = "StopTransaction" -> make_stop_transaction_response(request)
           [] command = "Authorize" -> make_authorize_response(request)
           [] OTHER -> make_default_answer(request)
    ELSE Err("no response")

\* mutant: the command is unwrapped without the check for None before it
make_response_Unchecked(cs, request, now, uuid, env) ==
  IF IsNone(request.command) THEN Panic
  ELSE route(cs, request, now, uuid, env)

\* CentralSystem::make_response
make_response(cs, request, now, uuid, env) ==
  IF IsNone(request.command) THEN Err("command is empty")
  ELSE route(cs, request, now, uuid, env)

\* whether make_response(request) gets as far as calling the CA's sign
CallsSign(request) ==
  /\ IsSome(request.command)
  /\ request.role = "Call"
  /\ Unwrap(request.command) = "SignCertificate"
  /\ IsSome(request.payload)
  /\ IsSome(as_str(JField(Unwrap(request.payload), "typeOfCertificate")))
  /\ IsSome(as_str(JField(Unwrap(request.payload), "csr")))

(***************************************************************************)
(* Bounds and input sets                                                   *)
(***************************************************************************)
NumConns == 2

MaxFrames == 3

MaxUuid == 2

Conns == 1..NumConns

Uuids == 0..(MaxUuid - 1)

\* clock readings: a time of 2020 with and without a millisecond part, and
\* a time past 2^32 seconds
ClockValues == {Clock(0, 1609459199, 123), Clock(0, 1609459200, 0), Clock(1, 5, 0)}

\* the bytes of a signed certificate, as openssl wrote them
CertData == {<<48, 130, 1, 255>>, <<10>>}

SignFaults == {"none", "create", "spawn", "wait", "open", "read"}

SignEnvs == [fault : SignFaults, data : CertData]

NoFault == [fault |-> "none", data |-> <<48, 130, 1, 255>>]

InitEnvs == [key : [fault : {"none", "spawn", "wait", "exit"}],
             cert : [fault : {"none", "spawn", "wait", "exit"}]]

V2GStr == <<"V","2","G","C","e","r","t","i","f","i","c","a","t","e">>

CsrStr == <<"-","-","-","-","-","B","E","G","I","N"," ","C","E","R","T","I","F","I","C","A","T","E"," ","R","E","Q","U","E","S","T","-","-","-","-","-">>

SignPayload ==
  JObj(<<Entry("csr", JStr(CsrStr)), Entry("typeOfCertificate", JStr(V2GStr))>>)

\* request payloads: none, empty, with evseId, a complete SignCertificate
\* payload, one without csr, one whose csr is no string, one without
\* typeOfCertificate, and payloads that are no objects
Payloads ==
  {None,
   Some(JObj(<<>>)),
   Some(JObj(<<Entry("evseId", JArr(<<JNum(1), JNum(2)>>))>>)),
   Some(SignPayload),
   Some(JObj(<<Entry("typeOfCertificate", JStr(V2GStr))>>)),
   Some(JObj(<<Entry("csr", JNum(5)), Entry("typeOfCertificate", JStr(V2GStr))>>)),
   Some(JObj(<<Entry("csr", JStr(CsrStr))>>)),
   Some(JNull),
   Some(JArr(<<JStr(CsrStr)>>))}

Ids == {<<"a">>, <<"7","f">>}

\* every message the dispatcher may be handed
Requests ==
  {Message_new(role, id, command, payload) :
     role \in MessageType, id \in Ids,
     command \in {None} \cup {Some(c) : c \in Command},
     payload \in Payloads}

\* a text frame whose JSON is the array of `elems`
TextArr(elems) == [kind |-> "text", json |-> Some(JArr(elems))]

\* what read_message may return to a session loop: a read error, a frame
\* that is not text, text that is not JSON, and text frames that are
\* malformed, unroutable, lack a payload field, or are well-formed calls
Inputs ==
  {[kind |-> "error", json |-> None],
   [kind |-> "binary", json |-> None],
   [kind |-> "text", json |-> None],
   TextArr(<<JNum(2)>>),
   TextArr(<<JNum(5), JStr(<<"a">>)>>),
   TextArr(<<JNum(2), JStr(<<>>)>>),
   TextArr(<<JNum(2), JStr(<<"a">>)>>),
   TextArr(<<JNum(2), JStr(<<"a">>), JStr(<<"R","e","s","e","t">>), JObj(<<>>)>>),
   TextArr(<<JNum(3), JStr(<<"a">>), JObj(<<>>)>>),
   TextArr(<<JNum(4), JStr(<<"a">>), JStr(HeartbeatStr)>>),
   TextArr(<<JNum(2), JStr(<<"a">>), JStr(<<"h","e","a","r","t","b","e","a","t">>), JObj(<<>>)>>),
   TextArr(<<JNum(2), JStr(<<"a">>), JStr(AuthorizeStr)>>),
   TextArr(<<JNum(2), JStr(<<"a">>), JStr(SignCertificateStr)>>),
   TextArr(<<JNum(2), JStr(<<"a">>), JStr(SignCertificateStr),
             JObj(<<Entry("typeOfCertificate", JStr(V2GStr))>>)>>),
   TextArr(<<JNum(2), JStr(<<"a">>), JStr(SignCertificateStr), SignPayload>>)}

(***************************************************************************)
(* src/main.rs: the state of the process                                   *)
(***************************************************************************)
VARIABLES
  main,     \* where fn main is: "start", "serving" (in ws_cycle) or "aborted"
  shared,   \* Option of the CentralSystem behind the Arc<Mutex<..>>
  mutex,    \* [holder: 0 or the connection holding the guard, poisoned]
  pc,       \* where each connection's thread is
  nread,    \* how many messages each connection has read
  frame,    \* the message a connection last read
  req,      \* Option of the Message a connection last unpacked
  signed,   \* Option of what the CA's sign returned for the request
  resp,     \* Option of what make_response returned for the request
  out,      \* the messages of resp still to be written
  wire,     \* the frames written to each connection, in order
  call,     \* direct calls of make_response or of the CA's sign: the arguments
  ret,      \* Option of what the calls returned
  codec,    \* a direct use of the codec: the Message handed to pack_message,
            \* the text of a frame, and what unpack_message made of the text
  startup   \* Option of what happened in fn main: whether openssl generated
            \* the root key and the root certificate, and what build returned

vars ==
  <<main, shared, mutex, pc, nread, frame, req, signed, resp, out, wire, call, ret, codec,
    startup>>

Unlocked == [holder |-> 0, poisoned |-> FALSE]

NoCodec == [message |-> None, raw |-> None, unpacked |-> None]

NoCall == [request |-> Message_new("Call", <<"a">>, None, None),
           now |-> Clock(0, 0, 0), uuid |-> 0, env |-> NoFault]

SessionInit ==
  /\ main = "start"
  /\ shared = None
  /\ mutex = Unlocked
  /\ pc = [c \in Conns |-> "idle"]
  /\ nread = [c \in Conns |-> 0]
  /\ frame = [c \in Conns |-> [kind |-> "binary", json |-> None]]
  /\ req = [c \in Conns |-> None]
  /\ signed = [c \in Conns |-> None]
  /\ resp = [c \in Conns |-> None]
  /\ out = [c \in Conns |-> <<>>]
  /\ wire = [c \in Conns |-> <<>>]
  /\ startup = None

Init ==
  /\ SessionInit
  /\ call = NoCall
  /\ ret = None
  /\ codec = NoCodec

\* fn main: build the central system, unwrap it, enter ws_cycle and bind
\* the listener; a failed build or bind panics at its unwrap
Main ==
  /\ main = "start"
  /\ \E env \in InitEnvs, bind \in BOOLEAN :
       LET built == CentralSystem_build(env) IN
       /\ startup' = Some([generated |-> Generated(env.key) /\ Generated(env.cert),
                            built |-> built.tag])
       /\ IF built.tag = "Ok" /\ bind
          THEN main' = "serving" /\ shared' = Some(built.val)
          ELSE main' = "aborted" /\ UNCHANGED shared
  /\ UNCHANGED <<mutex, pc, nread, frame, req, signed, resp, out, wire, call, ret, codec>>

\* ws_cycle: a stream comes in, a thread is spawned for it and the
\* handshake succeeds, or fails and accept_hdr(..).unwrap() panics
Accept(c) ==
  /\ main = "serving"
  /\ pc[c] = "idle"
  /\ \E handshake \in BOOLEAN :
       pc' = [pc EXCEPT ![c] = IF handshake THEN "read" ELSE "panicked"]
  /\ UNCHANGED <<main, shared, mutex, nread, frame, req, signed, resp, out, wire,
                 call, ret, codec, startup>>

\* the number of messages connections 1..n have read
RECURSIVE TotalRead(_)
TotalRead(n) == IF n = 0 THEN 0 ELSE nread[n] + TotalRead(n - 1)

\* websocket.read_message(): an error closes the connection and leaves the
\* loop; a message that is not text is skipped; text goes on to be unpacked
ReadMessage(c) ==
  /\ pc[c] = "read"
  /\ TotalRead(NumConns) < MaxFrames
  /\ \E input \in Inputs :
       /\ frame' = [frame EXCEPT ![c] = input]
       /\ pc' = [pc EXCEPT ![c] =
                   IF input.kind = "error" THEN "closed"
                   ELSE IF input.kind = "text" THEN "unpack"
                   ELSE "read"]
  /\ nread' = [nread EXCEPT ![c] = @ + 1]
  /\ req' = [req EXCEPT ![c] = None]
  /\ signed' = [signed EXCEPT ![c] = None]
  /\ resp' = [resp EXCEPT ![c] = None]
  /\ UNCHANGED <<main, shared, mutex, out, wire, call, ret, codec, startup>>

\* ocpp::unpack_message(..).unwrap(): anything but Ok panics the thread
Unpack(c) ==
  /\ pc[c] = "unpack"
  /\ LET unpacked == unpack_message(frame[c].json) IN
     IF unpacked.tag = "Ok"
     THEN /\ req' = [req EXCEPT ![c] = Some(unpacked.val)]
          /\ pc' = [pc EXCEPT ![c] = "lock"]
     ELSE /\ req' = [req EXCEPT ![c] = None]
          /\ pc' = [pc EXCEPT ![c] = "panicked"]
  /\ UNCHANGED <<main, shared, mutex, nread, frame, signed, resp, out, wire, call, ret,
                 codec, startup>>

\* mutant: the lock is handed out while another connection holds it
CanLock_NoExclusion(c) == TRUE

\* whether Mutex::lock can return to connection c
CanLock(c) == mutex.holder = 0

\* current_cs.lock().unwrap(): blocks while the mutex is held; on a poisoned
\* mutex lock() is an Err, the unwrap panics and the guard is dropped
Lock(c) ==
  /\ pc[c] = "lock"
  /\ CanLock(c)
  /\ IF mutex.poisoned
     THEN pc' = [pc EXCEPT ![c] = "panicked"] /\ UNCHANGED mutex
     ELSE pc' = [pc EXCEPT ![c] = "dispatch"] /\ mutex' = [mutex EXCEPT !.holder = c]
  /\ UNCHANGED <<main, shared, nread, frame, req, signed, resp, out, wire, call, ret,
                 codec, startup>>

\* mutant: the guard is dropped as soon as make_response has returned
Returned_GuardDropped(c, result) ==
  /\ resp' = [resp EXCEPT ![c] = Some(result)]
  /\ IF result.tag = "Ok"
     THEN /\ out' = [out EXCEPT ![c] = result.val]
          /\ pc' = [pc EXCEPT ![c] = IF Len(result.val) > 0 THEN "write" ELSE "unlock"]
          /\ mutex' = [mutex EXCEPT !.holder = 0]
     ELSE IF result.tag = "Err"
     THEN /\ out' = [out EXCEPT ![c] = <<>>]
          /\ pc' = [pc EXCEPT ![c] = "unlock"]
          /\ mutex' = [mutex EXCEPT !.holder = 0]
     ELSE /\ out' = [out EXCEPT ![c] = <<>>]
          /\ pc' = [pc EXCEPT ![c] = "panicked"]
          /\ mutex' = [holder |-> 0, poisoned |-> TRUE]

\* make_response has returned `result` to connection c, or has panicked:
\* Ok goes on to the write loop, Err to the end of the block, and a panic
\* unwinds the thread, dropping the guard, which poisons the mutex
Returned(c, result) ==
  /\ resp' = [resp EXCEPT ![c] = Some(result)]
  /\ IF result.tag = "Ok"
     THEN /\ out' = [out EXCEPT ![c] = result.val]
          /\ pc' = [pc EXCEPT ![c] = IF Len(result.val) > 0 THEN "write" ELSE "unlock"]
          /\ UNCHANGED mutex
     ELSE IF result.tag = "Err"
     THEN /\ out' = [out EXCEPT ![c] = <<>>]
          /\ pc' = [pc EXCEPT ![c] = "unlock"]
          /\ UNCHANGED mutex
     ELSE /\ out' = [out EXCEPT ![c] = <<>>]
          /\ pc' = [pc EXCEPT ![c] = "panicked"]
          /\ mutex' = [holder |-> 0, poisoned |-> TRUE]

\* cs.make_response(ocpp_req) up to its return, or up to the call of the
\* CA's sign, in which the thread then blocks; a request that does not get
\* to the CA draws no UUID and meets no CA failure
Dispatch(c) ==
  /\ pc[c] = "dispatch"
  /\ IF CallsSign(Unwrap(req[c]))
     THEN /\ pc' = [pc EXCEPT ![c] = "sign"]
          /\ UNCHANGED <<mutex, resp, out>>
     ELSE \E now \in ClockValues :
            Returned(c, make_response(Unwrap(shared), Unwrap(req[c]), now,
                                      NoCall.uuid, NoCall.env))
  /\ UNCHANGED <<main, shared, nread, frame, req, signed, wire, call, ret, codec, startup>>

\* the csr text of a request that gets as far as the CA
CsrOf(request) == Unwrap(as_str(JField(Unwrap(request.payload), "csr")))

\* the CA's sign returns (or panics) and make_response with it
Sign(c) ==
  /\ pc[c] = "sign"
  /\ \E uuid \in Uuids, env \in SignEnvs :
       /\ signed' = [signed EXCEPT ![c] =
                       Some(CA_sign(Unwrap(shared).ca,
                                    SignRequest(CsrOf(Unwrap(req[c]))), env))]
       /\ Returned(c, make_response(Unwrap(shared), Unwrap(req[c]), NoCall.now, uuid, env))
  /\ UNCHANGED <<main, shared, nread, frame, req, wire, call, ret, codec, startup>>

\* mutant: the write loop is left after its first turn
WriteMessage_FirstOnly(c) ==
  /\ pc[c] = "write"
  /\ wire' = [wire EXCEPT ![c] =
                Append(@, [frame |-> pack_message(Head(out[c])).val, of |-> nread[c]])]
  /\ out' = [out EXCEPT ![c] = Tail(@)]
  /\ pc' = [pc EXCEPT ![c] = "unlock"]
  /\ UNCHANGED <<main, shared, mutex, nread, frame, req, signed, resp, call, ret, codec, startup>>

\* one turn of `for r in ocpp_resp`: pack the next message and hand it to
\* websocket.write_message, whose result the loop ignores
WriteMessage(c) ==
  /\ pc[c] = "write"
  /\ wire' = [wire EXCEPT ![c] =
                Append(@, [frame |-> pack_message(Head(out[c])).val, of |-> nread[c]])]
  /\ out' = [out EXCEPT ![c] = Tail(@)]
  /\ pc' = [pc EXCEPT ![c] = IF Len(out[c]) > 1 THEN "write" ELSE "unlock"]
  /\ UNCHANGED <<main, shared, mutex, nread, frame, req, signed, resp, call, ret, codec, startup>>

\* mutant: the guard outlives the block and is kept while reading
Unlock_GuardKept(c) ==
  /\ pc[c] = "unlock"
  /\ pc' = [pc EXCEPT ![c] = "read"]
  /\ UNCHANGED <<main, shared, mutex, nread, frame, req, signed, resp, out, wire, call,
                 ret, codec, startup>>

\* the end of the `if msg_in.is_text()` block: the guard is dropped
Unlock(c) ==
  /\ pc[c] = "unlock"
  /\ mutex' = [mutex EXCEPT !.holder = 0]
  /\ pc' = [pc EXCEPT ![c] = "read"]
  /\ UNCHANGED <<main, shared, nread, frame, req, signed, resp, out, wire, call, ret,
                 codec, startup>>

Next ==
  \/ Main
  \/ \E c \in Conns : Accept(c)
  \/ \E c \in Conns : ReadMessage(c)
  \/ \E c \in Conns : Unpack(c)
  \/ \E c \in Conns : Lock(c)
  \/ \E c \in Conns : Dispatch(c)
  \/ \E c \in Conns : Sign(c)
  \/ \E c \in Conns : WriteMessage(c)
  \/ \E c \in Conns : Unlock(c)

Spec == Init /\ [][Next]_vars

\* The scheduling of the session loops: a thread that can take its next
\* step takes it (the scheduler is fair), a thread that waits for the mutex
\* gets it if it is free again and again (the lock is fair), and a call of
\* the CA's sign comes to its end.  When a client sends its next frame is
\* the client's choice, and so is when a stream comes in.
Fairness ==
  \A c \in Conns :
    /\ WF_vars(Unpack(c))
    /\ SF_vars(Lock(c))
    /\ WF_vars(Dispatch(c))
    /\ WF_vars(Sign(c))
    /\ WF_vars(WriteMessage(c))
    /\ WF_vars(Unlock(c))

SpecFair == Init /\ [][Next]_vars /\ Fairness

(***************************************************************************)
(* make_response called directly, on every request and every input         *)
(***************************************************************************)
\* the central system CentralSystem::build returns when CA init succeeds
BuiltCs ==
  CentralSystem_build([key |-> [fault |-> "none"], cert |-> [fault |-> "none"]]).val

InitDispatch ==
  /\ SessionInit
  /\ call \in [request : Requests, now : ClockValues, uuid : Uuids, env : SignEnvs]
  /\ ret = None
  /\ codec = NoCodec

CallMakeResponse ==
  /\ ret = None
  /\ ret' = Some(make_response(BuiltCs, call.request, call.now, call.uuid, call.env))
  /\ UNCHANGED <<main, shared, mutex, pc, nread, frame, req, signed, resp, out, wire,
                 call, codec, startup>>

NextDispatch == CallMakeResponse

SpecDispatch == InitDispatch /\ [][NextDispatch]_vars

(***************************************************************************)
(* The CA's sign called directly, on requests of either format and in      *)
(* every environment                                                       *)
(***************************************************************************)
\* certificate sign requests: the bytes of a PEM text, other bytes and no
\* bytes, in either format
Csrs ==
  [data : {as_bytes(CsrStr), <<48, 130, 1, 255>>, <<10>>, <<255>>, <<>>},
   format : {"PEM", "DER"}]

InitSign ==
  /\ SessionInit
  /\ call \in [csr : Csrs, env : SignEnvs]
  /\ ret = None
  /\ codec = NoCodec

CallSign ==
  /\ ret = None
  /\ ret' = Some(CA_sign(BuiltCs.ca, call.csr, call.env))
  /\ UNCHANGED <<main, shared, mutex, pc, nread, frame, req, signed, resp, out, wire,
                 call, codec, startup>>

NextSign == CallSign

SpecSign == InitSign /\ [][NextSign]_vars

(***************************************************************************)
(* make_response called twice on StartTransaction calls, at clock readings *)
(* in and out of the same second                                           *)
(***************************************************************************)
\* clock readings: three in one second of 2021, the second after it, the
\* same low 32 bits one wrap of 2^32 seconds later, and two in one second
\* past 2^32
StartClocks ==
  {Clock(0, 1609459200, 0), Clock(0, 1609459200, 1), Clock(0, 1609459200, 999),
   Clock(0, 1609459201, 0), Clock(1, 1609459200, 0),
   Clock(1, 5, 0), Clock(1, 5, 750)}

\* a StartTransaction call and the clock reading at its dispatch
StartCalls ==
  [request : {Message_new("Call", id, Some("StartTransaction"), payload) :
                id \in Ids, payload \in {None, Some(JObj(<<>>))}},
   now : StartClocks]

InitStart ==
  /\ SessionInit
  /\ call \in [first : StartCalls, second : StartCalls]
  /\ ret = None
  /\ codec = NoCodec

CallFirst ==
  /\ ret = None
  /\ ret' = Some(<<make_response(BuiltCs, call.first.request, call.first.now,
                                  NoCall.uuid, NoCall.env)>>)
  /\ UNCHANGED <<main, shared, mutex, pc, nread, frame, req, signed, resp, out, wire,
                 call, codec, startup>>

CallSecond ==
  /\ IsSome(ret)
  /\ Len(Unwrap(ret)) = 1
  /\ ret' = Some(Append(Unwrap(ret),
                         make_response(BuiltCs, call.second.request, call.second.now,
                                       NoCall.uuid, NoCall.env)))
  /\ UNCHANGED <<main, shared, mutex, pc, nread, frame, req, signed, resp, out, wire,
                 call, codec, startup>>

NextStart == CallFirst \/ CallSecond

SpecStart == InitStart /\ [][NextStart]_vars

(***************************************************************************)
(* The codec called directly: pack_message on every message, and           *)
(* unpack_message on the text pack_message wrote and on the text of        *)
(* malformed frames                                                        *)
(***************************************************************************)
\* ids of messages: of a client, with characters that stringify escapes,
\* and the empty id
CodecIds == {<<"a">>, <<"7","f">>, <<"x", Quote, Backslash>>, <<>>}

\* payloads of messages: none, objects, an array, a number, a string that
\* is the name of a command, and null
CodecPayloads ==
  {None,
   Some(JObj(<<>>)),
   Some(JObj(<<Entry("evseId", JArr(<<JNum(1), JNum(2)>>)),
               Entry("idTokenInfo", JObj(<<Entry("status", JStr(AcceptedStr))>>))>>)),
   Some(JArr(<<JStr(CsrStr), JNull>>)),
   Some(JNum(7)),
   Some(JStr(HeartbeatStr)),
   Some(JNull)}

\* every message pack_message may be handed
Messages ==
  {Message_new(role, id, command, payload) :
     role \in MessageType, id \in CodecIds,
     command \in {None} \cup {Some(c) : c \in Command},
     payload \in CodecPayloads}

\* the JSON of malformed and of borderline frames: values that are no
\* arrays, arrays that are too short, type codes that are no number or
\* none of 2, 3, 4, ids that are no string or empty, and well-formed heads
\* of each role with and without a command that is known
FrameValues ==
  {JNull, JNum(5), JStr(<<"a">>), JObj(<<>>),
   JObj(<<Entry("csr", JNum(2)), Entry("cert", JStr(<<"a">>))>>),
   JArr(<<>>), JArr(<<JNum(2)>>),
   JArr(<<JNum(5), JStr(<<"a">>)>>),
   JArr(<<JNum(0), JStr(<<"a">>)>>),
   JArr(<<JNum(300), JStr(<<"a">>)>>),
   JArr(<<JNum(-1), JStr(<<"a">>)>>),
   JArr(<<JStr(<<"2">>), JStr(<<"a">>)>>),
   JArr(<<JNull, JStr(<<"a">>)>>),
   JArr(<<JNum(2), JNum(5)>>),
   JArr(<<JNum(3), JNull>>),
   JArr(<<JNum(4), JArr(<<JStr(<<"a">>)>>)>>),
   JArr(<<JNum(2), JStr(<<>>)>>),
   JArr(<<JNum(5), JStr(<<>>)>>),
   JArr(<<JNum(2), JStr(<<"a">>)>>),
   JArr(<<JNum(3), JStr(<<"a">>), JObj(<<>>)>>),
   JArr(<<JNum(4), JStr(<<"a">>), JStr(<<"R","e","s","e","t">>), JObj(<<>>)>>),
   JArr(<<JNum(2), JStr(<<"a">>), JStr(<<"h","e","a","r","t","b","e","a","t">>),
          JObj(<<>>)>>)}

\* the text of frames: the JSON above as stringify writes it, the same
\* within white space, and text that is no JSON
RawFrames ==
  {json_stringify(j) : j \in FrameValues}
    \cup {<<" ">> \o json_stringify(j) \o <<" ">> : j \in FrameValues}
    \cup {<<>>, <<"h","i">>, <<"[","2",",">>, <<"[","2",",","]">>,
          <<"[","2",",",Quote,"a","]">>, <<"[","2"," ","3","]">>,
          <<"2",",",Quote,"a",Quote>>}

InitCodec ==
  /\ SessionInit
  /\ call = NoCall
  /\ ret = None
  /\ codec \in {[message |-> Some(m), raw |-> None, unpacked |-> None] : m \in Messages}
               \cup {[message |-> None, raw |-> Some(t), unpacked |-> None] :
                       t \in RawFrames}

\* pack_message(message): the array it builds, written by json::stringify
PackMessage ==
  /\ IsSome(codec.message)
  /\ IsNone(codec.raw)
  /\ codec' = [codec EXCEPT
                 !.raw = Some(json_stringify(pack_message(Unwrap(codec.message)).val))]
  /\ UNCHANGED <<main, shared, mutex, pc, nread, frame, req, signed, resp, out, wire,
                 call, ret, startup>>

\* unpack_message(raw) on what json::parse makes of the text
UnpackMessage ==
  /\ IsSome(codec.raw)
  /\ IsNone(codec.unpacked)
  /\ codec' = [codec EXCEPT
                 !.unpacked = Some(unpack_message(json_parse(Unwrap(codec.raw))))]
  /\ UNCHANGED <<main, shared, mutex, pc, nread, frame, req, signed, resp, out, wire,
                 call, ret, startup>>

NextCodec == PackMessage \/ UnpackMessage

SpecCodec == InitCodec /\ [][NextCodec]_vars

(***************************************************************************)
(* Properties of the session loop                                          *)
(***************************************************************************)
\* the frames written to connection c for the n-th message it read
FramesOf(c, n) == SelectSeq(wire[c], LAMBDA e : e.of = n)

\* the array pack_message writes for each of `msgs`
Packed(msgs) == [i \in 1..Len(msgs) |-> pack_message(msgs[i]).val]

\* connection c is done with the message it last read
Answered(c) == pc[c] \in {"unlock", "read", "closed"}

\* the wire frame of the acknowledgment {status: Accepted} to request `id`
AckFrame(id) ==
  JArr(<<JNum(3), JStr(id), JObj(<<Entry("status", JStr(AcceptedStr))>>)>>)

IsAckFrame(f) == Len(f.a) = 3 /\ f = AckFrame(f.a[2].s)

IsSignedFrame(f) ==
  /\ Len(f.a) = 4
  /\ f.a[1] = JNum(2)
  /\ f.a[3] = JStr(CertificateSignedStr)

\* C1: when the CA's sign returned an error for a SignCertificate call,
\* make_response returned an error and no frame is written for the request;
\* and once a SignCertificate request is answered, either both of its frames
\* (acknowledgment and CertificateSigned) are on the wire or none is.
C1_SignFailureWritesNothing ==
  \A c \in Conns :
    /\ (IsSome(signed[c]) /\ Unwrap(signed[c]).tag = "Err")
         => /\ IsSome(resp[c])
            /\ Unwrap(resp[c]).tag = "Err"
            /\ out[c] = <<>>
            /\ FramesOf(c, nread[c]) = <<>>
    /\ (Answered(c) /\ IsSome(req[c]) /\ CallsSign(Unwrap(req[c])))
         => Len(FramesOf(c, nread[c])) \in {0, 2}

\* C1 witness: a connection whose CA call failed is back at reading
C1_Witness ==
  \E c \in Conns :
    /\ IsSome(signed[c])
    /\ Unwrap(signed[c]).tag = "Err"
    /\ pc[c] = "read"
    /\ wire[c] = <<>>

\* C3: at no instant are two connections inside make_response (between the
\* acquisition of the lock and the return of make_response, the CA's sign
\* included), whatever the interleaving of the session loops.
C3_OneDispatchAtATime ==
  /\ Cardinality({c \in Conns : pc[c] \in {"dispatch", "sign"}}) <= 1
  /\ \A c \in Conns : pc[c] \in {"dispatch", "sign"} => mutex.holder = c

\* C3 witness: one connection is inside the CA call while another, having
\* unpacked a frame, waits for the lock
C3_Witness ==
  \E c, d \in Conns : c # d /\ pc[c] = "sign" /\ pc[d] = "lock"

\* C4: a connection that reads a frame has nothing left to write for the
\* frame before; the frames written for a frame are the messages
\* make_response returned, in their order, all of them by the time the
\* connection is back at reading.
C4_OneFrameAtATime ==
  \A c \in Conns :
    /\ pc[c] \in {"idle", "read", "unpack", "lock", "dispatch", "sign", "unlock"}
         => out[c] = <<>>
    /\ (IsSome(resp[c]) /\ Unwrap(resp[c]).tag = "Ok")
         => LET msgs == Unwrap(resp[c]).val IN
            /\ Len(out[c]) <= Len(msgs)
            /\ out[c] = SubSeq(msgs, Len(msgs) - Len(out[c]) + 1, Len(msgs))
            /\ [i \in 1..Len(FramesOf(c, nread[c])) |-> FramesOf(c, nread[c])[i].frame]
                 = SubSeq(Packed(msgs), 1, Len(msgs) - Len(out[c]))
    /\ (IsSome(resp[c]) /\ Unwrap(resp[c]).tag # "Ok")
         => FramesOf(c, nread[c]) = <<>>
    /\ IsNone(resp[c]) => FramesOf(c, nread[c]) = <<>>

\* C4 witness: a connection has written both frames of its first request and
\* has read its second frame
C4_Witness ==
  \E c \in Conns :
    /\ nread[c] = 2
    /\ pc[c] = "unpack"
    /\ Len(FramesOf(c, 1)) = 2

\* C5: on every connection a CertificateSigned frame comes right after the
\* acknowledgment of the same request, whose id is the request's, and an
\* acknowledgment is followed at once by the CertificateSigned frame of the
\* same request (which is the next frame to write while it is not yet there).
C5_AckThenSigned ==
  \A c \in Conns : \A i \in 1..Len(wire[c]) :
    /\ IsSignedFrame(wire[c][i].frame)
         => /\ i > 1
            /\ IsAckFrame(wire[c][i - 1].frame)
            /\ wire[c][i - 1].of = wire[c][i].of
    /\ IsAckFrame(wire[c][i].frame)
         => IF i < Len(wire[c])
            THEN /\ IsSignedFrame(wire[c][i + 1].frame)
                 /\ wire[c][i + 1].of = wire[c][i].of
            ELSE /\ pc[c] = "write"
                 /\ Len(out[c]) = 1
                 /\ IsSignedFrame(pack_message(out[c][1]).val)
                 /\ wire[c][i].frame = AckFrame(Unwrap(req[c]).id)

\* C5 witness: acknowledgment and CertificateSigned are the first two frames
\* on a connection
C5_Witness ==
  \E c \in Conns :
    /\ Len(wire[c]) >= 2
    /\ IsAckFrame(wire[c][1].frame)
    /\ IsSignedFrame(wire[c][2].frame)

\* a payload field that a handler reads with as_str().unwrap() is missing
\* or no string
LacksString(payload, key) == IsNone(as_str(JField(payload, key)))

\* C8: for a Call without a command make_response returns the error
\* "command is empty" and nothing is written for it.
C8_EmptyCommand ==
  \A c \in Conns :
    (/\ IsSome(req[c])
     /\ Unwrap(req[c]).role = "Call"
     /\ IsNone(Unwrap(req[c]).command)
     /\ IsSome(resp[c]))
      => /\ Unwrap(resp[c]) = Err("command is empty")
         /\ out[c] = <<>>
         /\ FramesOf(c, nread[c]) = <<>>

\* C8 witness: a connection has dispatched a Call without a command and is
\* back at reading
C8_Witness ==
  \E c \in Conns :
    /\ IsSome(req[c])
    /\ Unwrap(req[c]).role = "Call"
    /\ IsNone(Unwrap(req[c]).command)
    /\ IsSome(resp[c])
    /\ pc[c] = "read"

\* the requests make_response cannot route or lacks a payload or a payload
\* field for
DispatchErrorCase(request) ==
  \/ request.role # "Call"
  \/ IsNone(request.command)
  \/ /\ request.command = Some("Authorize")
     /\ IsNone(request.payload)
  \/ /\ request.command = Some("SignCertificate")
     /\ \/ IsNone(request.payload)
        \/ LacksString(Unwrap(request.payload), "typeOfCertificate")
        \/ LacksString(Unwrap(request.payload), "csr")

\* C9: a dispatch error is local to the offending Call: make_response
\* returns an error value, no frame is written for the Call, the connection
\* is not torn down, and once it is back at reading it holds the lock no
\* more and the lock is fit for the other connections.
C9_DispatchErrorsAreLocal ==
  \A c \in Conns :
    (/\ IsSome(req[c])
     /\ IsSome(resp[c])
     /\ DispatchErrorCase(Unwrap(req[c])))
      => /\ Unwrap(resp[c]).tag = "Err"
         /\ FramesOf(c, nread[c]) = <<>>
         /\ pc[c] \in {"unlock", "read"}
         /\ pc[c] = "read" => mutex.holder # c

\* C10: a parse error is local to the offending frame: once unpack_message
\* has refused a text frame, nothing is dispatched or written for it and the
\* connection is back at reading its next frame.
C10_ParseErrorsAreLocal ==
  \A c \in Conns :
    (/\ frame[c].kind = "text"
     /\ unpack_message(frame[c].json).tag # "Ok"
     /\ pc[c] # "unpack")
      => /\ pc[c] = "read"
         /\ IsNone(resp[c])
         /\ FramesOf(c, nread[c]) = <<>>

(***************************************************************************)
(* Properties of make_response                                             *)
(***************************************************************************)
\* the value of a lower-case hex digit
HexValue(ch) == (CHOOSE k \in DOMAIN HexDigits : HexDigits[k] = ch) - 1

\* str is the hex encoding of bytes
IsHexOf(str, bytes) ==
  /\ Len(str) = 2 * Len(bytes)
  /\ \A i \in 1..Len(bytes) :
       /\ \E k \in DOMAIN HexDigits : HexDigits[k] = str[2 * i - 1]
       /\ \E k \in DOMAIN HexDigits : HexDigits[k] = str[2 * i]
       /\ HexValue(str[2 * i - 1]) * 16 + HexValue(str[2 * i]) = bytes[i]

\* the directly called make_response was handed a SignCertificate call
\* whose payload has the strings typeOfCertificate and csr
SignCall ==
  /\ call.request.role = "Call"
  /\ call.request.command = Some("SignCertificate")
  /\ IsSome(call.request.payload)
  /\ ~LacksString(Unwrap(call.request.payload), "typeOfCertificate")
  /\ ~LacksString(Unwrap(call.request.payload), "csr")

\* what the CA's sign returns to that call
SignOutcome ==
  CA_sign(BuiltCs.ca,
          [data |-> as_bytes(JField(Unwrap(call.request.payload), "csr").s),
           format |-> "PEM"],
          call.env)

\* C2: for a SignCertificate call with string fields typeOfCertificate and
\* csr that the CA signs, make_response returns exactly the acknowledgment
\* (CallResult, the request's id, no command, {status: Accepted}) followed by
\* a Call CertificateSigned with the newly drawn UUID as id, which is not the
\* request's id, cert[0] the hex of the first certificate's bytes and
\* typeOfCertificate as in the request.  (Uuid::new_v4 draws 122 random
\* bits; request ids are the client's strings, none of them that UUID.)
C2_SignSuccessTwoMessages ==
  (IsSome(ret) /\ SignCall /\ SignOutcome.tag = "Ok")
    => LET r == Unwrap(ret) IN
       /\ r.tag = "Ok"
       /\ Len(r.val) = 2
       /\ r.val[1] = [role |-> "CallResult", id |-> call.request.id, command |-> None,
                      payload |-> Some(JObj(<<Entry("status", JStr(AcceptedStr))>>))]
       /\ r.val[2].role = "Call"
       /\ r.val[2].command = Some("CertificateSigned")
       /\ r.val[2].id # call.request.id
       /\ r.val[2].id = Uuid_to_string(call.uuid)
       /\ IsSome(r.val[2].payload)
       /\ LET p == Unwrap(r.val[2].payload) IN
          /\ JField(p, "cert").t = "arr"
          /\ JLen(JField(p, "cert")) = 1
          /\ JIndex(JField(p, "cert"), 0).t = "str"
          /\ IsHexOf(JIndex(JField(p, "cert"), 0).s, SignOutcome.val[1].data)
          /\ JField(p, "typeOfCertificate")
               = JField(Unwrap(call.request.payload), "typeOfCertificate")

\* C2 witness: make_response has returned to a SignCertificate call that the
\* CA signed
C2_Witness == IsSome(ret) /\ SignCall /\ SignOutcome.tag = "Ok"

\* the directly called make_response returned exactly one message, a
\* CallResult without a command and with the request's id
OneCallResult ==
  LET r == Unwrap(ret) IN
  /\ r.tag = "Ok"
  /\ Len(r.val) = 1
  /\ r.val[1].role = "CallResult"
  /\ r.val[1].command = None
  /\ r.val[1].id = call.request.id

\* the directly called make_response was handed a Call with a recognized
\* command other than SignCertificate
OtherCall ==
  /\ call.request.role = "Call"
  /\ IsSome(call.request.command)
  /\ Unwrap(call.request.command) \in Command \ {"SignCertificate"}

C7_NonCallNoResponse ==
  (IsSome(ret) /\ call.request.role \in {"CallResult", "CallError"})
    => Unwrap(ret) = Err("no response")

(***************************************************************************)
(* Properties of the codec                                                 *)
(***************************************************************************)
\* a message has been packed and the text unpacked again
RoundTrip == IsSome(codec.message) /\ IsSome(codec.unpacked)

\* C11: for every Message with any role, a non-empty id, a recognized
\* command and a payload, unpack_message of the text pack_message wrote
\* succeeds and yields a Message with the same role, the same id, the same
\* command and an equal payload.
C11_RoundTripWithCommand ==
  RoundTrip =>
    LET m == Unwrap(codec.message)
        back == Unwrap(codec.unpacked)
    IN (Len(m.id) > 0 /\ IsSome(m.command) /\ IsSome(m.payload)) =>
         /\ back.tag = "Ok"
         /\ back.val.role = m.role
         /\ back.val.id = m.id
         /\ back.val.command = m.command
         /\ back.val.payload = m.payload

\* a CallError with an id that stringify escapes, a command and a nested
\* object as payload has gone through pack_message and unpack_message
C11_Witness ==
  /\ RoundTrip
  /\ Unwrap(codec.message).role = "CallError"
  /\ Unwrap(codec.message).id = <<"x", Quote, Backslash>>
  /\ Unwrap(codec.message).command = Some("MeterValues")
  /\ IsSome(Unwrap(codec.message).payload)
  /\ JLen(Unwrap(Unwrap(codec.message).payload)) = 2
  /\ Unwrap(codec.unpacked).tag = "Ok"

\* C12: for every Message with a non-empty id, with or without a command
\* and with or without a payload, unpack_message of the text pack_message
\* wrote succeeds with the same role and id, with a command exactly when
\* the Message has one (the same one) and with a payload exactly when the
\* Message has one (an equal one).
C12_RoundTripFieldsPresent ==
  RoundTrip =>
    LET m == Unwrap(codec.message)
        back == Unwrap(codec.unpacked)
    IN Len(m.id) > 0 =>
         /\ back.tag = "Ok"
         /\ back.val.role = m.role
         /\ back.val.id = m.id
         /\ back.val.command = m.command
         /\ back.val.payload = m.payload

\* the text of a frame has been handed to unpack_message
Unpacked == IsSome(codec.raw) /\ IsSome(codec.unpacked)

\* element 0 of the frame is a number that is one of 2, 3, 4
ValidType(data) ==
  JIndex(data, TYPE_INDEX).t = "num" /\ JIndex(data, TYPE_INDEX).n \in {2, 3, 4}

\* element 1 of the frame is a string that is not empty
ValidId(data) ==
  JIndex(data, ID_INDEX).t = "str" /\ Len(JIndex(data, ID_INDEX).s) > 0

\* C13: unpack_message never aborts and reports every malformed frame as
\* an error value: text that is no JSON or has fewer than 2 elements is a
\* parse error; otherwise an element 0 that is not one of 2, 3, 4 (or no
\* number) is the invalid-type error; otherwise an element 1 that is no
\* string or is empty is the invalid-id error; every other frame is a
\* Message with role Call for 2, CallResult for 3 and CallError for 4.
C13_MalformedAreErrors ==
  Unpacked =>
    LET parsed == json_parse(Unwrap(codec.raw))
        result == Unwrap(codec.unpacked)
    IN
    /\ result.tag # "Panic"
    /\ IF IsNone(parsed) \/ JLen(Unwrap(parsed)) < 2
       THEN result.tag = "Err" /\ result.err \in {"can't parse", "invalid len"}
       ELSE IF ~ValidType(Unwrap(parsed))
       THEN result.tag = "Err" /\ result.err = "type is invalid"
       ELSE IF ~ValidId(Unwrap(parsed))
       THEN result.tag = "Err" /\ result.err \in {"id is invalid", "id is empty"}
       ELSE /\ result.tag = "Ok"
            /\ RoleCode(result.val.role) = JIndex(Unwrap(parsed), TYPE_INDEX).n

(***************************************************************************)
(* Properties of the dispatcher and of the session loop, continued         *)
(***************************************************************************)
\* a text frame that is a Call with a non-empty id whose command string is
\* none of the nine known commands
UnknownCall(f) ==
  /\ f.kind = "text"
  /\ IsSome(f.json)
  /\ JLen(Unwrap(f.json)) > COMMAND_INDEX
  /\ JIndex(Unwrap(f.json), TYPE_INDEX) = JNum(2)
  /\ ValidId(Unwrap(f.json))
  /\ JIndex(Unwrap(f.json), COMMAND_INDEX).t = "str"
  /\ Command_try_from(JIndex(Unwrap(f.json), COMMAND_INDEX).s).tag = "Err"

\* C14: an inbound Call frame whose command string is not one of the nine
\* known commands is never an error: unpack_message accepts it with the
\* command unset, make_response answers it with one empty CallResult that
\* carries the request's id, and that one frame is written.
C14_UnknownCommandAcknowledged ==
  \A c \in Conns :
    (UnknownCall(frame[c]) /\ Answered(c)) =>
      /\ IsSome(req[c])
      /\ IsNone(Unwrap(req[c]).command)
      /\ resp[c] = Some(Ok(<<Message_new("CallResult", Unwrap(req[c]).id, None,
                                         Some(JObj(<<>>)))>>))
      /\ FramesOf(c, nread[c]) =
           <<[frame |-> JArr(<<JNum(3), JStr(Unwrap(req[c]).id), JObj(<<>>)>>),
              of |-> nread[c]]>>

\* make_response has been called directly on a Call with command `command`
Called(command) ==
  /\ IsSome(ret)
  /\ call.request.role = "Call"
  /\ call.request.command = Some(command)

\* the CallResult of an Authorize call: the payload's evseId as it came,
\* and idTokenInfo with status Accepted and the fixed expiry timestamp
AuthorizeResult(request) ==
  Message_new("CallResult", request.id, None,
    Some(JObj(<<Entry("evseId", JField(Unwrap(request.payload), "evseId")),
                Entry("idTokenInfo",
                      JObj(<<Entry("status", JStr(AcceptedStr)),
                             Entry("cacheExpiryDateTime", JStr(ExpiryStr))>>))>>)))

\* C15: an Authorize call without a payload makes make_response return the
\* missing-payload error as an error value; with a payload, make_response
\* returns the single CallResult that echoes the payload's evseId unchanged
\* together with idTokenInfo {status: Accepted, cacheExpiryDateTime: the
\* fixed timestamp}.
C15_AuthorizePayload ==
  Called("Authorize") =>
    IF IsNone(call.request.payload)
    THEN Unwrap(ret).tag = "Err" /\ Unwrap(ret).err = "payload is empty"
    ELSE Unwrap(ret) = Ok(<<AuthorizeResult(call.request)>>)

\* a SignCertificate call whose payload is absent, or lacks a string
\* typeOfCertificate or a string csr
BadSignCall(request) ==
  /\ request.role = "Call"
  /\ request.command = Some("SignCertificate")
  /\ \/ IsNone(request.payload)
     \/ LacksString(Unwrap(request.payload), "typeOfCertificate")
     \/ LacksString(Unwrap(request.payload), "csr")

\* C16: a SignCertificate call whose payload is absent returns the
\* missing-payload error; one whose payload lacks typeOfCertificate or csr,
\* or holds no string for either, makes make_response return an error
\* value; in all these cases no frame is written for the call (not even the
\* acknowledgment) and the CA's sign is not called.
C16_BadSignPayload ==
  \A c \in Conns :
    (IsSome(req[c]) /\ BadSignCall(Unwrap(req[c])) /\ IsSome(resp[c])) =>
      /\ Unwrap(resp[c]).tag = "Err"
      /\ IsNone(Unwrap(req[c]).payload) => Unwrap(resp[c]) = Err("payload is empty")
      /\ FramesOf(c, nread[c]) = <<>>
      /\ signed[c] = None

\* C17: the process serves connections only after the root key and the
\* root certificate have been generated: when the generation of either
\* fails, build returns an error, main aborts, no listener is bound and no
\* connection is accepted or dispatched.
C17_ServesOnlyAfterInit ==
  /\ (main = "serving" \/ \E c \in Conns : pc[c] # "idle") =>
       (IsSome(startup) /\ Unwrap(startup).generated)
  /\ (IsSome(startup) /\ ~Unwrap(startup).generated) =>
       (Unwrap(startup).built = "Err" /\ main = "aborted")

(***************************************************************************)
(* Properties of the Certification Authority                               *)
(***************************************************************************)
\* C18: the CA's sign always returns a value: an error for every request
\* that is not in PEM format and whenever the signing step produces no
\* certificate (the subprocess fails or its output cannot be read), and
\* otherwise a list of at least one certificate.
C18_SignAlwaysReturns ==
  IsSome(ret) =>
    LET result == Unwrap(ret) IN
    /\ result.tag \in {"Ok", "Err"}
    /\ call.csr.format # "PEM" => result.tag = "Err"
    /\ call.env.fault # "none" => result.tag = "Err"
    /\ result.tag = "Ok" => Len(result.val) >= 1

(***************************************************************************)
(* Properties of the session loop, continued                               *)
(***************************************************************************)
\* connection c has no response under way: it has not dispatched the frame
\* it last read, or every message make_response returned for it is written
NothingPending(c) ==
  /\ pc[c] \notin {"dispatch", "sign", "write", "unlock"}
  /\ out[c] = <<>>
  /\ (IsSome(resp[c]) /\ Unwrap(resp[c]).tag = "Ok") =>
       [i \in 1..Len(FramesOf(c, nread[c])) |-> FramesOf(c, nread[c])[i].frame]
         = Packed(Unwrap(resp[c]).val)

\* C19: the response frames of different connections appear in the order
\* in which the connections acquired the lock: in a step in which a
\* connection starts its dispatch or writes a frame it holds the lock, and
\* every other connection, having acquired the lock before or not yet, has
\* no response under way: all frames of its request are written.
C19_FramesInLockOrder ==
  [][\A b \in Conns :
       ((pc[b] = "lock" /\ pc'[b] = "dispatch") \/ wire'[b] # wire[b]) =>
         /\ mutex'.holder = b
         /\ \A a \in Conns \ {b} : NothingPending(a)]_vars

\* C19 witness: a connection has acquired the lock and written the first
\* of its two frames after another connection has written both of its own
C19_Witness ==
  \E a, b \in Conns :
    /\ a # b
    /\ Len(wire[a]) = 2
    /\ pc[a] \in {"read", "closed"}
    /\ pc[b] = "write"
    /\ Len(wire[b]) = 1
    /\ mutex.holder = b

(***************************************************************************)
(* Properties of StartTransaction                                          *)
(***************************************************************************)
\* both StartTransaction calls have returned
BothReturned == IsSome(ret) /\ Len(Unwrap(ret)) = 2

\* the transactionId of the response to a StartTransaction call
TransactionId(result) == JField(Unwrap(result.val[1].payload), "transactionId")

\* two clock readings fall into the same second
SameSecond(a, b) == a.wraps = b.wraps /\ a.secs = b.secs

\* C20: the transactionId of a StartTransaction response is the unix time
\* in whole seconds modulo 2^32 (of wraps * 2^32 + secs seconds, secs), so
\* two StartTransaction calls dispatched within the same clock second get
\* the same transactionId, whatever their ids and payloads.
C20_TransactionIdIsSeconds ==
  BothReturned =>
    LET first == Unwrap(ret)[1]
        second == Unwrap(ret)[2]
    IN
    /\ first.tag = "Ok" /\ Len(first.val) = 1
    /\ second.tag = "Ok" /\ Len(second.val) = 1
    /\ TransactionId(first) = JNum(call.first.now.secs)
    /\ TransactionId(second) = JNum(call.second.now.secs)
    /\ SameSecond(call.first.now, call.second.now) =>
         TransactionId(first) = TransactionId(second)

\* C20 witness: two calls with different ids, dispatched at different
\* milliseconds of one second past 2^32, have got the same transactionId
C20_Witness ==
  /\ BothReturned
  /\ call.first.request.id # call.second.request.id
  /\ call.first.now.wraps = 1
  /\ SameSecond(call.first.now, call.second.now)
  /\ call.first.now.millis # call.second.now.millis
  /\ TransactionId(Unwrap(ret)[1]) = TransactionId(Unwrap(ret)[2])

(***************************************************************************)
(* Properties of the lock                                                  *)
(***************************************************************************)
\* connection c waits for a stream or for its next frame, or has left its
\* loop after a read error
Quiet(c) == pc[c] \in {"idle", "read", "closed"}

\* C21: a connection holds the lock only between having read and unpacked
\* a text frame and having written the last response frame for it: never
\* while it waits for a frame, after a frame that is not text or after a
\* read error; so when a connection is about to take the lock and every
\* other connection is idle, waiting for a frame or closed, the lock is
\* free and fit and its dispatch can start.
C21_LockOnlyWhileResponding ==
  /\ \A c \in Conns :
       mutex.holder = c =>
         /\ pc[c] \in {"dispatch", "sign", "write", "unlock"}
         /\ frame[c].kind = "text"
         /\ IsSome(req[c])
  /\ \A c \in Conns : Quiet(c) => mutex.holder # c
  /\ \A d \in Conns :
       (pc[d] = "lock" /\ \A c \in Conns \ {d} : Quiet(c)) =>
         (CanLock(d) /\ ~mutex.poisoned)

\* C21 witness: a connection that has answered one frame and then met a
\* read error is closed, while another is about to take the lock for a
\* text frame it has unpacked
C21_Witness ==
  \E c, d \in Conns :
    /\ c # d
    /\ pc[c] = "closed"
    /\ nread[c] = 2
    /\ Len(wire[c]) > 0
    /\ pc[d] = "lock"

(***************************************************************************)
(* Progress                                                                *)
(***************************************************************************)
\* a text frame that unpack_message makes a Message of
WellFormed(f) == f.kind = "text" /\ unpack_message(f.json).tag = "Ok"

\* a call of the CA's sign by connection c has not returned: it panicked
SignPanicked(c) == IsSome(signed[c]) /\ Unwrap(signed[c]).tag = "Panic"

\* while a connection is inside the CA's sign, no other connection is in
\* or enters a dispatch, writes a response frame or completes a dispatch
TotalStall ==
  [][\A c \in Conns :
       (pc[c] = "sign" /\ pc'[c] = "sign") =>
         \A d \in Conns \ {c} :
           /\ pc[d] \notin {"dispatch", "sign", "write", "unlock"}
           /\ pc'[d] \notin {"dispatch", "sign", "write", "unlock"}
           /\ wire'[d] = wire[d]
           /\ IsNone(resp[d]) => IsNone(resp'[d])]_vars

\* C22: progress without deadlock: with a fair scheduler and a fair lock,
\* and unless a call of the CA's sign does not return, every connection
\* that has read a well-formed text frame eventually takes the lock,
\* completes its dispatch, writes its response frames, releases the lock
\* and is back at reading; and while one connection's CA call has not
\* returned, no other connection completes a dispatch.
C22_ProgressAndStall ==
  /\ \A c \in Conns :
       (pc[c] = "unpack" /\ WellFormed(frame[c]))
         ~> (pc[c] = "read" \/ \E d \in Conns : SignPanicked(d))
  /\ TotalStall
====
